---- MODULE Spec2Model ----
(***************************************************************************)
(* Model of peloton/peloton.py: the lazy-loading PelotonWorkout, the       *)
(* PelotonObject.serialize engine, the PelotonAPI session/request layer    *)
(* the lazy loader fetches through, and PelotonWorkoutFactory.list.        *)
(*                                                                         *)
(* Python values are records [t |-> <type name>, v |-> <content>].  An     *)
(* instance of a PelotonObject subclass has t = the class name and v = its *)
(* __dict__, a function from attribute names to values.                    *)
(***************************************************************************)
EXTENDS Integers, Sequences, FiniteSets, TLC

(* ------------------------------ bounds --------------------------------- *)

\* Depth of nested __getattribute__ resolutions the interpreter allows
\* before RecursionError (sys.getrecursionlimit() in CPython, scaled down).
MaxRecursion == 2

\* Number of HTTP requests (login POSTs and GETs together) after which no
\* further factory call is made.
MaxRequests == 3

\* Largest depth argument passed to serialize.
MaxSerializeDepth == 2

\* Largest page_count the server reports for the workout listing.
MaxPages == 2

(* --------------------------- python values ----------------------------- *)

NotLoaded == [t |-> "NotLoaded", v |-> 0]

NoneV == [t |-> "NoneType", v |-> 0]

\* an instance of class DataMissing
DataMissing == [t |-> "DataMissing", v |-> 0]

IntV(n) == [t |-> "int", v |-> n]

StrV(s) == [t |-> "str", v |-> s]

\* a float, held as a number of tenths (15 is 1.5)
FloatV(n) == [t |-> "float", v |-> n]

\* a timezone-aware datetime, held as seconds since the epoch (UTC)
DatetimeV(n) == [t |-> "datetime", v |-> n]

TupleV(s) == [t |-> "tuple", v |-> s]

\* a decimal.Decimal with one fractional digit, held as a number of tenths
DecimalV(n) == [t |-> "Decimal", v |-> n]

ListV(s) == [t |-> "list", v |-> s]

DictV(f) == [t |-> "dict", v |-> f]

ObjV(cls, attrs) == [t |-> cls, v |-> attrs]

PelotonObjectClasses ==
    {"PelotonUser", "PelotonWorkout", "PelotonRide", "PelotonMetric",
     "PelotonMetricSummary", "PelotonWorkoutMetrics"}

\* isinstance(x, PelotonObject)
IsPelotonObject(x) == x.t \in PelotonObjectClasses

\* type(x) is NotLoaded
IsNotLoaded(x) == x.t = "NotLoaded"

\* the function with no keys (an empty dict / empty kwargs)
EmptyMap == [k \in {} |-> NoneV]

\* kwargs.get(k)
KwGet(kwargs, k) == IF k \in DOMAIN kwargs THEN kwargs[k] ELSE NoneV

\* kwargs.get(k, default)
KwGetDefault(kwargs, k, default) == IF k \in DOMAIN kwargs THEN kwargs[k] ELSE default

(* ------------------------- datetime.isoformat -------------------------- *)

Digit == <<"0", "1", "2", "3", "4", "5", "6", "7", "8", "9">>

TwoDigits(n) == Digit[(n \div 10) + 1] \o Digit[(n % 10) + 1]

\* datetime.fromtimestamp(n, timezone.utc).isoformat(), for instants in
\* January 1970 (0 <= n < 31 days), which is where the payloads' epoch
\* seconds lie.
IsoFormat(n) ==
    "1970-01-" \o TwoDigits((n \div 86400) + 1) \o "T"
        \o TwoDigits((n % 86400) \div 3600) \o ":"
        \o TwoDigits((n % 3600) \div 60) \o ":"
        \o TwoDigits(n % 60) \o "+00:00"

(* ------------------------ entity constructors -------------------------- *)

\* PelotonRide.__init__
PelotonRideInit(kwargs) ==
    ObjV("PelotonRide",
         [title         |-> KwGet(kwargs, "title"),
          id            |-> KwGet(kwargs, "id"),
          description   |-> KwGet(kwargs, "description"),
          duration      |-> KwGet(kwargs, "duration"),
          instructor_id |-> KwGet(kwargs, "instructor_id")])

\* PelotonMetric.__init__
PelotonMetricInit(kwargs) ==
    ObjV("PelotonMetric",
         [values  |-> KwGet(kwargs, "values"),
          average |-> KwGet(kwargs, "average_value"),
          name    |-> KwGet(kwargs, "display_name"),
          unit    |-> KwGet(kwargs, "display_unit"),
          max     |-> KwGet(kwargs, "max_value"),
          slug    |-> KwGet(kwargs, "slug")])

\* PelotonMetricSummary.__init__
PelotonMetricSummaryInit(kwargs) ==
    ObjV("PelotonMetricSummary",
         [name  |-> KwGet(kwargs, "display_name"),
          value |-> KwGet(kwargs, "value"),
          unit  |-> KwGet(kwargs, "display_unit"),
          slug  |-> KwGet(kwargs, "slug")])

metric_summaries == {"total_output", "distance", "calories"}

metric_categories == {"output", "cadence", "resistance", "speed", "heart_rate"}

\* attr_name without the special case of total_output (lines 480-481)
SummaryAttrNameSuffixOnly(slug) ==
    IF slug = "distance" THEN "distance_summary"
    ELSE IF slug = "calories" THEN "calories_summary"
    ELSE "total_output_summary"

\* the attribute a summary is stored under
SummaryAttrName(slug) ==
    IF slug = "total_output" THEN "output_summary"
    ELSE IF slug = "distance" THEN "distance_summary"
    ELSE "calories_summary"

\* setattr(self, name, value) on a __dict__
SetAttr(attrs, name, value) ==
    [k \in (DOMAIN attrs) \cup {name} |-> IF k = name THEN value ELSE attrs[k]]

\* the loop over kwargs['summaries']: unknown slugs are skipped
RECURSIVE BuildSummaries(_, _, _)
BuildSummaries(attrs, summaries, i) ==
    IF i > Len(summaries) THEN attrs
    ELSE LET metric == summaries[i].v
             slug   == metric["slug"].v
         IN IF slug \notin metric_summaries
            THEN BuildSummaries(attrs, summaries, i + 1)
            ELSE BuildSummaries(
                     SetAttr(attrs, SummaryAttrName(slug), PelotonMetricSummaryInit(metric)),
                     summaries, i + 1)

\* the loop over kwargs['metrics']: unknown slugs are skipped
RECURSIVE BuildMetrics(_, _, _)
BuildMetrics(attrs, metrics, i) ==
    IF i > Len(metrics) THEN attrs
    ELSE LET metric == metrics[i].v
             slug   == metric["slug"].v
         IN IF slug \notin metric_categories
            THEN BuildMetrics(attrs, metrics, i + 1)
            ELSE BuildMetrics(SetAttr(attrs, slug, PelotonMetricInit(metric)),
                              metrics, i + 1)

\* PelotonWorkoutMetrics.__init__ raises (TypeError / IndexError) when
\* segment_list, summaries or metrics is missing or segment_list is empty.
WorkoutMetricsInitRaises(kwargs) ==
    \/ KwGet(kwargs, "segment_list").t # "list"
    \/ Len(KwGet(kwargs, "segment_list").v) = 0
    \/ KwGet(kwargs, "summaries").t # "list"
    \/ KwGet(kwargs, "metrics").t # "list"

\* PelotonWorkoutMetrics.__init__
PelotonWorkoutMetricsInit(kwargs) ==
    LET base == [workout_duration   |-> KwGet(kwargs, "duration"),
                 fitness_discipline |-> kwargs["segment_list"].v[1].v["metrics_type"]]
        withSummaries == BuildSummaries(base, kwargs["summaries"].v, 1)
    IN ObjV("PelotonWorkoutMetrics",
            BuildMetrics(withSummaries, kwargs["metrics"].v, 1))

\* the comprehension over achievement_templates: (name, description) pairs
AchievementPairs(templates) ==
    [i \in 1..Len(templates) |->
        TupleV(<<templates[i].v["name"], templates[i].v["description"]>>)]

\* PelotonWorkout.__init__
PelotonWorkoutInit(kwargs) ==
    ObjV("PelotonWorkout",
         [id   |-> KwGet(kwargs, "id"),
          ride |-> IF KwGet(kwargs, "ride").t # "NoneType"
                   THEN PelotonRideInit(kwargs["ride"].v)
                   ELSE NotLoaded,
          metrics |-> NotLoaded,
          achievements |->
              IF KwGet(kwargs, "achievement_templates").t # "NoneType"
              THEN ListV(AchievementPairs(kwargs["achievement_templates"].v))
              ELSE NotLoaded,
          created    |-> DatetimeV(KwGetDefault(kwargs, "created", IntV(0)).v),
          created_at |-> DatetimeV(KwGetDefault(kwargs, "created_at", IntV(0)).v),
          start_time |-> DatetimeV(KwGetDefault(kwargs, "start_time", IntV(0)).v),
          end_time   |-> DatetimeV(KwGetDefault(kwargs, "end_time", IntV(0)).v),
          fitness_discipline |-> KwGet(kwargs, "fitness_discipline"),
          leaderboard_rank   |-> KwGetDefault(kwargs, "leaderboard_rank", NotLoaded),
          leaderboard_users  |-> KwGetDefault(kwargs, "total_leaderboard_users", NotLoaded),
          status |-> KwGet(kwargs, "status")])

\* insertion order of PelotonWorkout.__dict__ (the order __init__ assigns)
WorkoutAttrOrder ==
    <<"id", "ride", "metrics", "achievements", "created", "created_at",
      "start_time", "end_time", "fitness_discipline", "leaderboard_rank",
      "leaderboard_users", "status">>

(* ----------------------- PelotonObject.serialize ----------------------- *)

\* attribute names starting with an underscore; no class of the module
\* assigns one
PrivateAttrs == {}

\* "%.1f" % val for a non-negative decimal below 100 held in tenths
FormatOneDecimal(n) ==
    (IF n \div 10 >= 10 THEN Digit[(n \div 100) + 1] ELSE "")
        \o Digit[((n \div 10) % 10) + 1] \o "." \o Digit[(n % 10) + 1]

RECURSIVE SerializeObject(_, _, _)
RECURSIVE SerializeBody(_, _, _)
RECURSIVE SerializeList(_, _, _)

\* the inner loop over a list attribute: the serialized_list it builds
SerializeList(v, depth, i) ==
    IF i > Len(v) THEN <<>>
    ELSE LET val  == v[i]
             rest == SerializeList(v, depth, i + 1)
         IN IF IsPelotonObject(val)
            THEN IF depth > 1
                 THEN <<SerializeObject(val, depth - 1, TRUE)>> \o rest
                 ELSE rest
            ELSE IF val.t = "datetime" THEN <<StrV(IsoFormat(val.v))>> \o rest
            ELSE IF val.t = "Decimal" THEN <<StrV(FormatOneDecimal(val.v))>> \o rest
            ELSE IF val.t \in {"str", "int", "dict"} THEN <<val>> \o rest
            ELSE rest

\* lines 182-187 storing serialized_list whether or not it is empty
SerializeEmitsEveryList(v, depth) ==
    IF IsPelotonObject(v) THEN depth > 1 ELSE TRUE

\* whether the second loop of serialize sets ret[k] for the value v
SerializeEmits(v, depth) ==
    IF IsPelotonObject(v) THEN depth > 1
    ELSE IF v.t = "list"
         THEN SerializeList(v.v, depth, 1) # <<>> \/ v.v = <<>>
         ELSE TRUE

\* the value the second loop of serialize stores in ret[k]
SerializeValue(v, depth) ==
    IF IsPelotonObject(v) THEN SerializeObject(v, depth - 1, TRUE)
    ELSE IF v.t = "list" THEN ListV(SerializeList(v.v, depth, 1))
    ELSE IF v.t = "datetime" THEN StrV(IsoFormat(v.v))
    ELSE IF v.t = "Decimal" THEN StrV(FormatOneDecimal(v.v))
    ELSE v

\* the second loop of serialize: ret, built from obj_attrs and dont_load
SerializeBody(obj_attrs, dont_load, depth) ==
    LET keys == {k \in DOMAIN obj_attrs :
                    /\ k \notin PrivateAttrs
                    /\ k \notin dont_load
                    /\ SerializeEmits(obj_attrs[k], depth)}
    IN [k \in keys |-> SerializeValue(obj_attrs[k], depth)]

\* the first loop of serialize on an object whose attribute reads are plain
\* (every class but PelotonWorkout): obj_attrs is filled only under load_all
ObjAttrsOf(attrs, load_all) == IF load_all THEN attrs ELSE EmptyMap

\* the first loop of serialize: the keys it appends to dont_load
DontLoadOf(attrs, load_all) ==
    IF load_all THEN {} ELSE {k \in DOMAIN attrs : IsNotLoaded(attrs[k])}

\* serialize without the `if depth == 0: return None` of lines 135-136
SerializeObjectAtAnyDepth(obj, depth, load_all) ==
    DictV(SerializeBody(ObjAttrsOf(obj.v, load_all),
                        DontLoadOf(obj.v, load_all), depth))

\* PelotonObject.serialize on an object whose attribute reads are plain
SerializeObject(obj, depth, load_all) ==
    IF depth = 0 THEN NoneV
    ELSE DictV(SerializeBody(ObjAttrsOf(obj.v, load_all),
                             DontLoadOf(obj.v, load_all), depth))

(* ------------------------- payloads (inputs) --------------------------- *)

\* the singleton maps {k: v} for v in vals, and the map without the key
OptionalKey(k, vals) == {EmptyMap} \cup {k :> v : v \in vals}

RidePayload ==
    [title |-> StrV("30 min ride"), id |-> StrV("r1"),
     description |-> StrV("climb"), duration |-> IntV(1800),
     instructor_id |-> StrV("i1")]

AchievementTemplate ==
    DictV([name |-> StrV("Best Output"), description |-> StrV("personal record")])

WorkoutBasePayload ==
    [id |-> StrV("w1"), created |-> IntV(60), created_at |-> IntV(60),
     start_time |-> IntV(3600), end_time |-> IntV(90061),
     fitness_discipline |-> StrV("cycling"), status |-> StrV("COMPLETE")]

\* the leaderboard keys of a workout payload: both present or both absent
\* in the listing; the detail body may carry either without the other
LeaderboardKeys(rank, users) ==
    [leaderboard_rank |-> rank, total_leaderboard_users |-> users]

\* bodies of GET /api/user/<id>/workouts entries (joins=ride), from which
\* the workout under observation is built: a bare entry, one with an empty
\* achievement_templates, one with the ride and the leaderboard keys, and
\* one with the ride, an achievement and the leaderboard keys
ListPayloads ==
    {WorkoutBasePayload,
     WorkoutBasePayload @@ ("achievement_templates" :> ListV(<<>>)),
     WorkoutBasePayload @@ ("ride" :> DictV(RidePayload))
         @@ LeaderboardKeys(IntV(5), IntV(9)),
     WorkoutBasePayload @@ ("ride" :> DictV(RidePayload))
         @@ ("achievement_templates" :> ListV(<<AchievementTemplate>>))
         @@ LeaderboardKeys(IntV(5), IntV(9))}

\* bodies of GET /api/workout/<id>
DetailPayloads ==
    {WorkoutBasePayload @@ a @@ l @@ u :
        a \in OptionalKey("achievement_templates", {ListV(<<>>)}),
        l \in OptionalKey("leaderboard_rank", {IntV(0)}),
        u \in OptionalKey("total_leaderboard_users", {NoneV})}

OutputMetric ==
    DictV([slug |-> StrV("output"), display_name |-> StrV("Output"),
           display_unit |-> StrV("watts"), average_value |-> FloatV(1205),
           max_value |-> IntV(300),
           values |-> ListV(<<IntV(1), FloatV(25), IntV(3)>>)])

UnknownMetric ==
    DictV([slug |-> StrV("unknown_metric"), display_name |-> StrV("?"),
           display_unit |-> StrV("?"), average_value |-> IntV(0),
           max_value |-> IntV(0), values |-> ListV(<<>>)])

OutputSummary ==
    DictV([slug |-> StrV("total_output"), display_name |-> StrV("Total Output"),
           display_unit |-> StrV("kj"), value |-> IntV(250)])

CaloriesSummary ==
    DictV([slug |-> StrV("calories"), display_name |-> StrV("Calories"),
           display_unit |-> StrV("kcal"), value |-> IntV(400)])

UnknownSummary ==
    DictV([slug |-> StrV("unknown_summary"), display_name |-> StrV("?"),
           display_unit |-> StrV("?"), value |-> IntV(0)])

SegmentList == ListV(<<DictV([metrics_type |-> StrV("cycling")])>>)

\* bodies of GET /api/workout/<id>/performance_graph: two well-formed ones
\* and one without segment_list
MetricsPayloads ==
    {[duration |-> IntV(1800), segment_list |-> SegmentList,
      summaries |-> ListV(<<OutputSummary, UnknownSummary>>),
      metrics |-> ListV(<<OutputMetric, UnknownMetric>>)],
     [duration |-> IntV(1200), segment_list |-> SegmentList,
      summaries |-> ListV(<<CaloriesSummary>>),
      metrics |-> ListV(<<>>)],
     [duration |-> IntV(1800),
      summaries |-> ListV(<<>>),
      metrics |-> ListV(<<>>)]}

\* values of results_per_page the caller passes to list
PageSizes == {1, 2}

\* values of page_count in the body of a listing page
PageCounts == 0..MaxPages

\* the 'data' of page `page` of GET /api/user/<id>/workouts with limit
\* `limit`: `limit` workouts, told apart by page and position
PageData(page, limit) ==
    [k \in 1..limit |->
        [WorkoutBasePayload EXCEPT
            !.id = StrV("w" \o Digit[page + 1] \o Digit[k + 1])]]

\* status codes the server answers the login POST with
LoginStatuses == {200, 302, 401, 500}

\* status codes the server answers a GET with
GetStatuses == {200, 204, 302, 404, 500}

(* ------------------------------- state --------------------------------- *)

VARIABLES
    objs,             \* objs[1]: the PelotonWorkout the caller holds;
                      \* objs[k+1]: the local `workout` of __getattribute__ frame k
    frames,           \* the __getattribute__ calls in progress, outermost first
    op,               \* the caller's operation in progress
    last,             \* the caller's last operation and its outcome (read: the
                      \* values a loading serialize got from __getattribute__)
    pre,              \* objs[1] and the fetch counters when `last` started
    peloton_session,  \* class attribute peloton_session, per class
    user_id,          \* class attribute user_id, per class
    calls,            \* factory calls made: PelotonWorkoutFactory.get (detail),
                      \* PelotonWorkoutMetricsFactory.get (metrics), those of the
                      \* latter that raised, and those made from an inner frame
    net,              \* HTTP requests sent: login POSTs, those of them that
                      \* failed, and GETs
    prev,             \* the operation before `last`, if it was a lazy read that returned
    request           \* the latest GET of the caller's operation: the class it
                      \* was issued on, whether a login had succeeded on the
                      \* class whose session sent it, the status answered, what
                      \* _api_request raised, and the JSON body handed to a
                      \* constructor

vars == <<objs, frames, op, last, pre, peloton_session, user_id, calls, net, prev, request>>

(* ------------------------------ PelotonAPI ----------------------------- *)

ApiClasses == {"PelotonAPI", "PelotonWorkoutFactory", "PelotonWorkoutMetricsFactory"}

\* cls.<attr>: a subclass that never assigned the attribute reads the one
\* of PelotonAPI
ClassAttr(f, cls) == IF f[cls] = "inherit" THEN f["PelotonAPI"] ELSE f[cls]

\* the raise chain shared by _api_request and _create_api_session
ClassifyStatus(status) ==
    IF 300 <= status /\ status < 400 THEN "PelotonRedirectError"
    ELSE IF 400 <= status /\ status < 500 THEN "PelotonClientError"
    ELSE IF 500 <= status /\ status < 600 THEN "PelotonServerError"
    ELSE "none"

\* PelotonAPI._create_api_session, the login answered with `status`
\* (PELOTON_USER and PELOTON_PASSWORD are set in the environment)
CreateApiSession(cls, status) ==
    [exc     |-> ClassifyStatus(status),
     session |-> [peloton_session EXCEPT ![cls] = "Session"],
     user_id |-> IF ClassifyStatus(status) = "none"
                 THEN [user_id EXCEPT ![cls] = "set"]
                 ELSE user_id]

\* whether a requests.Response has the attribute `_contnet` that
\* _api_request reads into `message`
ResponseHasContnet == FALSE

\* what _api_request raises for the status of the GET's response
ApiRequestError(status) ==
    IF ~(200 >= status /\ status < 300)
    THEN IF ~ResponseHasContnet THEN "AttributeError"
         ELSE ClassifyStatus(status)
    ELSE "none"

\* PelotonAPI._api_request called on class cls; the login (if one is made)
\* is answered with loginStatus and the GET with getStatus
ApiRequest(cls, loginStatus, getStatus) ==
    LET needLogin == ClassAttr(peloton_session, cls) = "None"
        login == IF needLogin
                 THEN CreateApiSession(cls, loginStatus)
                 ELSE [exc |-> "none", session |-> peloton_session, user_id |-> user_id]
    IN IF login.exc # "none"
       THEN [exc |-> login.exc, session |-> login.session, user_id |-> login.user_id,
             posts |-> 1, gets |-> 0]
       ELSE [exc |-> ApiRequestError(getStatus),
             session |-> login.session, user_id |-> login.user_id,
             posts |-> IF needLogin THEN 1 ELSE 0, gets |-> 1]

\* the login statuses worth drawing for a request on cls: one arbitrary
\* value when no login is made
LoginChoices(cls) ==
    IF ClassAttr(peloton_session, cls) = "None" THEN LoginStatuses ELSE {200}

(* ------------------------- the caller's operations --------------------- *)

\* attributes __getattribute__ lazily loads
LazyAttrs == {"metrics", "leaderboard_rank", "leaderboard_users", "achievements"}

\* the attributes loaded together from the workout detail
Trio == {"leaderboard_rank", "leaderboard_users", "achievements"}

WorkoutAttrs == {WorkoutAttrOrder[i] : i \in 1..Len(WorkoutAttrOrder)}

\* params: the dict list() passes to _api_request; page_count: the one the
\* first page reported; ret: the list it is building
IdleOp ==
    [kind |-> "idle", attr |-> "", depth |-> 0, load_all |-> FALSE, i |-> 0,
     obj_attrs |-> EmptyMap,
     params |-> [page |-> 0, limit |-> 0], page_count |-> 0, ret |-> <<>>]

\* sent: the params of the GETs a listing issued, in order
NoLast ==
    [kind |-> "none", attr |-> "", depth |-> 0, load_all |-> FALSE,
     target |-> NoneV, status |-> "none", value |-> NoneV, exc |-> "none",
     read |-> EmptyMap,
     results_per_page |-> 0, page_count |-> 0, sent |-> <<>>]

NoRequest ==
    [cls |-> "", logged_in |-> FALSE, status |-> 0, exc |-> "none", body |-> EmptyMap]

\* the class whose attribute cls.peloton_session resolves to, given the
\* per-class values f
SessionOwner(f, cls) == IF f[cls] = "inherit" THEN "PelotonAPI" ELSE cls

\* the record of a GET issued on cls and answered with status, r being what
\* ApiRequest gave for it; body is recorded when the response was returned.
\* user_id is assigned on a class exactly when a login made on it succeeds.
RequestOf(cls, status, r, body) ==
    IF r.gets = 0 THEN request
    ELSE [cls |-> cls,
          logged_in |-> r.user_id[SessionOwner(r.session, cls)] = "set",
          status |-> status,
          exc |-> r.exc, body |-> IF r.exc = "none" THEN body ELSE EmptyMap]

\* the request counters after the requests of r; a login failed when its
\* POST was sent and no GET followed
Sent(r) ==
    [posts  |-> net.posts + r.posts,
     gets   |-> net.gets + r.gets,
     failed |-> net.failed + (IF r.posts = 1 /\ r.gets = 0 THEN 1 ELSE 0)]

Snapshot == [self |-> objs[1], detail |-> calls.detail, metrics |-> calls.metrics,
             nested |-> calls.nested]

NoPrevious == [attr |-> "", trioNotLoaded |-> FALSE, detail |-> 0]

\* what the next operation remembers of `last` when it was a read of a
\* lazily loaded attribute: the attribute, whether the three detail
\* attributes were all NotLoaded when it started, and the count of detail
\* calls at that moment
Previous ==
    IF last.kind = "read" /\ last.status = "returned" /\ last.attr \in LazyAttrs
    THEN [attr |-> last.attr,
          trioNotLoaded |-> \A a \in Trio : IsNotLoaded(pre.self.v[a]),
          detail |-> pre.detail]
    ELSE NoPrevious

Idle == op.kind = "idle" /\ frames = <<>>

Requests == net.posts + net.gets

Init ==
    /\ \E p \in ListPayloads : objs = <<PelotonWorkoutInit(p)>>
    /\ frames = <<>>
    /\ op = IdleOp
    /\ last = NoLast
    /\ pre = [self |-> objs[1], detail |-> 0, metrics |-> 0, nested |-> 0]
    /\ peloton_session = [c \in ApiClasses |-> IF c = "PelotonAPI" THEN "None" ELSE "inherit"]
    /\ user_id = [c \in ApiClasses |-> IF c = "PelotonAPI" THEN "None" ELSE "inherit"]
    /\ calls = [detail |-> 0, metrics |-> 0, metricsRaised |-> 0, nested |-> 0]
    /\ net = [posts |-> 0, gets |-> 0, failed |-> 0]
    /\ prev = NoPrevious
    /\ request = NoRequest

\* line 371 without the `type(value) is NotLoaded` test
NeedsLoadIgnoringValue(obj, attr) == attr \in LazyAttrs

\* line 371 with the test never passing: nothing is ever loaded
NeedsLoadNever(obj, attr) == FALSE

\* line 371 without the test of the attribute's name
NeedsLoadAnyAttribute(obj, attr) == IsNotLoaded(obj.v[attr])

\* line 371 testing the value's truth (`not value`) besides its type
NeedsLoadWhenFalsy(obj, attr) ==
    /\ attr \in LazyAttrs
    /\ \/ IsNotLoaded(obj.v[attr])
       \/ obj.v[attr] \in {ListV(<<>>), IntV(0), NoneV}

\* whether __getattribute__(attr) on obj goes on to load (line 371)
NeedsLoad(obj, attr) == attr \in LazyAttrs /\ IsNotLoaded(obj.v[attr])

\* the caller reads objs[1].<attr>
ReadAttr(attr) ==
    /\ Idle
    /\ pre' = Snapshot
    /\ prev' = Previous
    /\ IF NeedsLoad(objs[1], attr)
       THEN /\ frames' = <<[attr |-> attr, pc |-> "fetch"]>>
            /\ op' = [IdleOp EXCEPT !.kind = "read", !.attr = attr]
            /\ last' = [NoLast EXCEPT !.kind = "read", !.attr = attr,
                                      !.target = objs[1], !.status = "running"]
       ELSE /\ frames' = frames
            /\ op' = op
            /\ last' = [NoLast EXCEPT !.kind = "read", !.attr = attr,
                                      !.target = objs[1], !.status = "returned",
                                      !.value = objs[1].v[attr]]
    /\ request' = NoRequest
    /\ UNCHANGED <<objs, peloton_session, user_id, calls, net>>

(* --------------------- PelotonWorkout.__getattribute__ ----------------- *)

\* the frame on top of the stack and the object it runs on
Top == Len(frames)

\* the field a copying step assigns (lines 382, 383, 386)
PcField(pc) ==
    IF pc = "rank" THEN "leaderboard_rank"
    ELSE IF pc = "users" THEN "leaderboard_users"
    ELSE "achievements"

\* the copying steps without line 386 (achievements never copied)
NextPcWithoutAchievements(pc) == IF pc = "rank" THEN "users" ELSE "ret"

\* the step after a copying step
NextPc(pc) ==
    IF pc = "rank" THEN "users"
    ELSE IF pc = "users" THEN "ach"
    ELSE "ret"

\* an exception leaves __getattribute__: nothing in the module catches it,
\* so every frame is left and the caller's operation ends with it;
\* o is objs as the raising step leaves it
Raise(exc, o) ==
    /\ frames' = <<>>
    /\ objs' = <<o[1]>>
    /\ op' = IdleOp
    /\ last' = [last EXCEPT !.status = "raised", !.exc = exc]

\* the outermost __getattribute__ returns value to the caller's operation:
\* a read ends, serialize stores obj_attrs[k] and moves on to the next key
DeliverToOp(value) ==
    IF op.kind = "read"
    THEN /\ op' = IdleOp
         /\ last' = [last EXCEPT !.status = "returned", !.value = value]
    ELSE /\ op' = [op EXCEPT !.obj_attrs = [k \in (DOMAIN op.obj_attrs) \cup {WorkoutAttrOrder[op.i]} |->
                                               IF k = WorkoutAttrOrder[op.i] THEN value
                                               ELSE op.obj_attrs[k]],
                             !.i = op.i + 1]
         /\ last' = last

\* the top frame returns value; o is objs as the returning step leaves it.
\* Its local `workout` is dropped; an inner frame's value is assigned by
\* the frame below to the field that frame was copying.
Return(value, o) ==
    IF Top = 1
    THEN /\ frames' = <<>>
         /\ objs' = <<o[1]>>
         /\ DeliverToOp(value)
    ELSE LET parent == frames[Top - 1]
         IN /\ frames' = [SubSeq(frames, 1, Top - 1) EXCEPT ![Top - 1].pc = NextPc(parent.pc)]
            /\ objs' = [SubSeq(o, 1, Top) EXCEPT ![Top - 1].v[PcField(parent.pc)] = value]
            /\ UNCHANGED <<op, last>>

\* lines 373-376: PelotonWorkoutMetricsFactory.get(self.id), store, return
FetchMetrics ==
    /\ frames # <<>>
    /\ frames[Top].pc = "fetch"
    /\ frames[Top].attr = "metrics"
    /\ Requests < MaxRequests
    /\ \E loginStatus \in LoginChoices("PelotonWorkoutMetricsFactory"),
          getStatus \in GetStatuses, payload \in MetricsPayloads :
         LET r == ApiRequest("PelotonWorkoutMetricsFactory", loginStatus, getStatus)
         IN /\ peloton_session' = r.session
            /\ user_id' = r.user_id
            /\ net' = Sent(r)
            /\ request' = RequestOf("PelotonWorkoutMetricsFactory", getStatus, r, payload)
            /\ calls' = [calls EXCEPT
                            !.metrics = @ + 1,
                            !.metricsRaised =
                                IF r.exc # "none" \/ WorkoutMetricsInitRaises(payload)
                                THEN @ + 1 ELSE @,
                            !.nested = IF Top > 1 THEN @ + 1 ELSE @]
            /\ IF r.exc # "none" THEN Raise(r.exc, objs)
               ELSE IF WorkoutMetricsInitRaises(payload) THEN Raise("TypeError", objs)
               ELSE LET metrics == PelotonWorkoutMetricsInit(payload)
                    IN Return(metrics, [objs EXCEPT ![Top].v["metrics"] = metrics])
    /\ UNCHANGED <<pre, prev>>

\* line 379: workout = PelotonWorkoutFactory.get(self.id), which requests
\* through PelotonAPI._api_request (class PelotonAPI itself)
FetchDetail ==
    /\ frames # <<>>
    /\ frames[Top].pc = "fetch"
    /\ frames[Top].attr \in Trio
    /\ Requests < MaxRequests
    /\ calls' = [calls EXCEPT !.detail = @ + 1,
                              !.nested = IF Top > 1 THEN @ + 1 ELSE @]
    /\ \E loginStatus \in LoginChoices("PelotonAPI"),
          getStatus \in GetStatuses, payload \in DetailPayloads :
         LET r == ApiRequest("PelotonAPI", loginStatus, getStatus)
         IN /\ peloton_session' = r.session
            /\ user_id' = r.user_id
            /\ net' = Sent(r)
            /\ request' = RequestOf("PelotonAPI", getStatus, r, payload)
            /\ IF r.exc # "none" THEN Raise(r.exc, objs)
               ELSE /\ objs' = Append(objs, PelotonWorkoutInit(payload))
                    /\ frames' = [frames EXCEPT ![Top].pc = "rank"]
                    /\ UNCHANGED <<op, last>>
    /\ UNCHANGED <<pre, prev>>

\* lines 382, 383, 386: self.<field> = workout.<field>.  The right-hand side
\* is an attribute read on a PelotonWorkout, so it goes through
\* __getattribute__ of the fetched object: a new frame when the field is
\* NotLoaded there, RecursionError when the interpreter's limit is reached.
CopyField ==
    /\ frames # <<>>
    /\ frames[Top].pc \in {"rank", "users", "ach"}
    /\ LET field == PcField(frames[Top].pc)
           workout == objs[Top + 1]
       IN IF NeedsLoad(workout, field)
          THEN IF Top + 1 > MaxRecursion
               THEN Raise("RecursionError", objs)
               ELSE /\ frames' = Append(frames, [attr |-> field, pc |-> "fetch"])
                    /\ UNCHANGED <<objs, op, last>>
          ELSE /\ objs' = [objs EXCEPT ![Top].v[field] = workout.v[field]]
               /\ frames' = [frames EXCEPT ![Top].pc = NextPc(frames[Top].pc)]
               /\ UNCHANGED <<op, last>>
    /\ UNCHANGED <<pre, prev, peloton_session, user_id, calls, net, request>>

\* line 389: return getattr(self, attr), again through __getattribute__
ReturnAttr ==
    /\ frames # <<>>
    /\ frames[Top].pc = "ret"
    /\ IF NeedsLoad(objs[Top], frames[Top].attr)
       THEN /\ frames' = [frames EXCEPT ![Top].pc = "fetch"]
            /\ objs' = SubSeq(objs, 1, Top)
            /\ UNCHANGED <<op, last>>
       ELSE Return(objs[Top].v[frames[Top].attr], objs)
    /\ UNCHANGED <<pre, prev, peloton_session, user_id, calls, net, request>>

(* ------------------------------ serialize ------------------------------ *)

\* the PelotonObjects held in attributes of obj, and in theirs
NestedEntities(obj) ==
    LET direct == {obj.v[k] : k \in {a \in DOMAIN obj.v : IsPelotonObject(obj.v[a])}}
    IN direct \cup UNION {{e.v[k] : k \in {a \in DOMAIN e.v : IsPelotonObject(e.v[a])}} : e \in direct}

\* the caller calls objs[1].serialize(depth, load_all).  Depth 0 returns at
\* line 136; without load_all the first loop only reads raw values; with
\* load_all it reads every attribute through __getattribute__ (SerializeLoad).
SerializeWorkout(depth, load_all) ==
    /\ Idle
    /\ pre' = Snapshot
    /\ prev' = Previous
    /\ IF depth = 0 \/ ~load_all
       THEN /\ op' = op
            /\ last' = [NoLast EXCEPT !.kind = "serialize", !.depth = depth,
                                      !.load_all = load_all, !.target = objs[1],
                                      !.status = "returned",
                                      !.value = SerializeObject(objs[1], depth, load_all)]
       ELSE /\ op' = [IdleOp EXCEPT !.kind = "serialize", !.depth = depth,
                                    !.load_all = load_all, !.i = 1]
            /\ last' = [NoLast EXCEPT !.kind = "serialize", !.depth = depth,
                                      !.load_all = load_all, !.target = objs[1],
                                      !.status = "running"]
    /\ request' = NoRequest
    /\ UNCHANGED <<objs, frames, peloton_session, user_id, calls, net>>

\* line 144: obj_attrs[k] = getattr(self, k) for the next key k
SerializeLoad ==
    /\ op.kind = "serialize"
    /\ frames = <<>>
    /\ op.i <= Len(WorkoutAttrOrder)
    /\ LET k == WorkoutAttrOrder[op.i]
       IN IF NeedsLoad(objs[1], k)
          THEN /\ frames' = <<[attr |-> k, pc |-> "fetch"]>>
               /\ UNCHANGED <<op, last>>
          ELSE /\ frames' = frames
               /\ DeliverToOp(objs[1].v[k])
    /\ UNCHANGED <<objs, pre, prev, peloton_session, user_id, calls, net, request>>

\* lines 153-200 once the first loop is over
SerializeFinish ==
    /\ op.kind = "serialize"
    /\ frames = <<>>
    /\ op.i > Len(WorkoutAttrOrder)
    /\ op' = IdleOp
    /\ last' = [last EXCEPT !.status = "returned",
                            !.value = DictV(SerializeBody(op.obj_attrs, {}, op.depth)),
                            !.read = op.obj_attrs]
    /\ UNCHANGED <<objs, frames, pre, prev, peloton_session, user_id, calls, net, request>>

\* the caller serializes an entity held by the workout (its ride, its
\* metrics, a metric of those): attribute reads on these are plain
SerializeEntity(e, depth, load_all) ==
    /\ Idle
    /\ pre' = Snapshot
    /\ prev' = Previous
    /\ last' = [NoLast EXCEPT !.kind = "serialize", !.depth = depth,
                              !.load_all = load_all, !.target = e,
                              !.status = "returned",
                              !.value = SerializeObject(e, depth, load_all)]
    /\ request' = NoRequest
    /\ UNCHANGED <<objs, frames, op, peloton_session, user_id, calls, net>>

(* ---------------------- PelotonWorkoutFactory.list --------------------- *)

\* the loop of list running one page past range(1, res['page_count'])
ListPagesLeftOnePastTheEnd(page, page_count) == page + 1 <= page_count

\* whether `for i in range(1, res['page_count'])` has an iteration left
\* after the request of page `page`
ListPagesLeft(page, page_count) == page + 1 < page_count

\* [PelotonWorkout(**workout) for workout in res['data']]
WorkoutsOf(data) == [k \in 1..Len(data) |-> PelotonWorkoutInit(data[k])]

\* the caller calls PelotonWorkoutFactory.list(results_per_page): the
\* login it makes itself when cls.user_id is None, then params
WorkoutList(results_per_page) ==
    /\ Idle
    /\ pre' = Snapshot
    /\ prev' = Previous
    /\ request' = NoRequest
    /\ LET started == [NoLast EXCEPT !.kind = "list", !.status = "running",
                                     !.results_per_page = results_per_page]
           listing == [IdleOp EXCEPT !.kind = "list",
                                     !.params = [page |-> 0, limit |-> results_per_page]]
       IN IF ClassAttr(user_id, "PelotonWorkoutFactory") = "None"
          THEN /\ Requests < MaxRequests
               /\ \E loginStatus \in LoginStatuses :
                    LET c == CreateApiSession("PelotonWorkoutFactory", loginStatus)
                    IN /\ peloton_session' = c.session
                       /\ user_id' = c.user_id
                       /\ net' = [net EXCEPT !.posts = @ + 1,
                                             !.failed = IF c.exc # "none" THEN @ + 1 ELSE @]
                       /\ IF c.exc # "none"
                          THEN /\ op' = op
                               /\ last' = [started EXCEPT !.status = "raised", !.exc = c.exc]
                          ELSE /\ op' = listing
                               /\ last' = started
          ELSE /\ op' = listing
               /\ last' = started
               /\ UNCHANGED <<peloton_session, user_id, net>>
    /\ UNCHANGED <<objs, frames, calls>>

\* res = cls._api_request(uri, params).json() for the page in params, the
\* workouts of the page added to ret, and either the next turn of the loop
\* (params['page'] += 1) or `return ret`
ListPage ==
    /\ op.kind = "list"
    /\ Requests < MaxRequests
    /\ \E loginStatus \in LoginChoices("PelotonWorkoutFactory"),
          getStatus \in GetStatuses,
          page_count \in IF op.params.page = 0 THEN PageCounts ELSE {op.page_count} :
         LET r   == ApiRequest("PelotonWorkoutFactory", loginStatus, getStatus)
             ret == op.ret \o WorkoutsOf(PageData(op.params.page, op.params.limit))
             issued == IF r.gets = 1 THEN Append(last.sent, op.params) ELSE last.sent
         IN /\ peloton_session' = r.session
            /\ user_id' = r.user_id
            /\ net' = Sent(r)
            /\ request' = RequestOf("PelotonWorkoutFactory", getStatus, r, EmptyMap)
            /\ IF r.exc # "none"
               THEN /\ op' = IdleOp
                    /\ last' = [last EXCEPT !.status = "raised", !.exc = r.exc,
                                            !.sent = issued]
               ELSE IF ListPagesLeft(op.params.page, page_count)
               THEN /\ op' = [op EXCEPT !.ret = ret, !.page_count = page_count,
                                        !.params.page = @ + 1]
                    /\ last' = [last EXCEPT !.sent = issued, !.page_count = page_count]
               ELSE /\ op' = IdleOp
                    /\ last' = [last EXCEPT !.status = "returned", !.value = ListV(ret),
                                            !.sent = issued, !.page_count = page_count]
    /\ UNCHANGED <<objs, frames, pre, prev, calls>>

Next ==
    \/ \E results_per_page \in PageSizes : WorkoutList(results_per_page)
    \/ ListPage
    \/ \E attr \in WorkoutAttrs : ReadAttr(attr)
    \/ FetchMetrics
    \/ FetchDetail
    \/ CopyField
    \/ ReturnAttr
    \/ \E depth \in 0..MaxSerializeDepth, load_all \in BOOLEAN :
           SerializeWorkout(depth, load_all)
    \/ SerializeLoad
    \/ SerializeFinish
    \/ \E e \in NestedEntities(objs[1]), depth \in 0..MaxSerializeDepth,
          load_all \in BOOLEAN : SerializeEntity(e, depth, load_all)

Spec == Init /\ [][Next]_vars

(* ------------------------------- claims -------------------------------- *)

\* the caller's last operation was a read of attr that returned
ReturnedRead(attr) ==
    last.kind = "read" /\ last.attr = attr /\ last.status = "returned"

\* C1: when the first metrics fetch succeeds, reads of `metrics` perform
\* exactly one metrics fetch in total: while no metrics fetch has raised, a
\* workout whose metrics is loaded has made exactly one metrics call; every
\* read of metrics that returns gives the PelotonWorkoutMetrics stored on
\* the workout; and once stored, that value is never replaced.
C1_MetricsFetchedOnce ==
    /\ [](( ~IsNotLoaded(objs[1].v["metrics"]) /\ calls.metricsRaised = 0 )
             => calls.metrics = 1)
    /\ [](ReturnedRead("metrics")
             => /\ last.value = objs[1].v["metrics"]
                /\ last.value.t = "PelotonWorkoutMetrics")
    /\ [][ ~IsNotLoaded(objs[1].v["metrics"])
             => objs'[1].v["metrics"] = objs[1].v["metrics"] ]_vars

\* C1 witness: a read of metrics returned on a workout whose metrics had
\* been loaded by an earlier read, with one metrics call in total
C1_SecondReadReturned ==
    /\ ReturnedRead("metrics")
    /\ prev.attr = "metrics"
    /\ ~IsNotLoaded(pre.self.v["metrics"])
    /\ calls.metrics = 1
    /\ calls.metricsRaised = 0
\* the three detail attributes were all NotLoaded on `self`
TrioNotLoaded(self) == \A a \in Trio : IsNotLoaded(self.v[a])

\* one of the three detail attributes was NotLoaded on `self`
SomeTrioNotLoaded(self) == \E a \in Trio : IsNotLoaded(self.v[a])

\* C2: on a workout whose achievements, leaderboard_rank and
\* leaderboard_users are all NotLoaded, reading achievements and then
\* leaderboard_rank makes exactly one workout-detail call in total,
\* whatever detail payload the successful fetch returned.
C2_OneDetailFetchForTwoReads ==
    ( /\ ReturnedRead("leaderboard_rank")
      /\ prev.attr = "achievements"
      /\ prev.trioNotLoaded )
        => calls.detail - prev.detail = 1

\* C2: the two reads have both returned (the case the claim is about)
C2_BothReadsReturned ==
    /\ ReturnedRead("leaderboard_rank")
    /\ prev.attr = "achievements"
    /\ prev.trioNotLoaded

\* C3: when one of the three detail attributes is NotLoaded, a read of any
\* of the three (also of one that is itself loaded) makes exactly one
\* workout-detail call, after which none of the three is NotLoaded; a read
\* of metrics makes no workout-detail call and a read of one of the three
\* makes no metrics call.
C3_TrioReadFetchesOnce ==
    /\ \A a \in Trio :
         (ReturnedRead(a) /\ SomeTrioNotLoaded(pre.self))
            => /\ calls.detail - pre.detail = 1
               /\ ~SomeTrioNotLoaded(objs[1])
    /\ (last.kind = "read" /\ last.attr = "metrics")
            => calls.detail = pre.detail
    /\ (last.kind = "read" /\ last.attr \in Trio)
            => calls.metrics = pre.metrics

\* C3 as amended: a read of one of the three detail attributes that is
\* itself NotLoaded makes one workout-detail call from the workout's own
\* __getattribute__ (any further call is made from the fetched object, see
\* C6), and when it returns none of the three is NotLoaded; a read of one
\* of the three that is already loaded returns with no call and changes
\* nothing, even if another of the three is NotLoaded; a read of metrics
\* makes no workout-detail call and a read of one of the three makes no
\* metrics call.
C3_NotLoadedTrioReadFetches ==
    /\ \A a \in Trio :
         (ReturnedRead(a) /\ IsNotLoaded(pre.self.v[a]))
            => /\ (calls.detail - pre.detail) - (calls.nested - pre.nested) = 1
               /\ ~SomeTrioNotLoaded(objs[1])
    /\ \A a \in Trio :
         (last.kind = "read" /\ last.attr = a /\ ~IsNotLoaded(pre.self.v[a]))
            => /\ last.status = "returned"
               /\ calls.detail = pre.detail
               /\ objs[1] = pre.self
    /\ (last.kind = "read" /\ last.attr = "metrics")
            => calls.detail = pre.detail
    /\ (last.kind = "read" /\ last.attr \in Trio)
            => calls.metrics = pre.metrics

\* C3 witness: a read of a NotLoaded detail attribute returned and left
\* none of the three NotLoaded
C3_TrioReadReturned ==
    \E a \in Trio :
        /\ ReturnedRead(a)
        /\ IsNotLoaded(pre.self.v[a])
        /\ calls.detail - pre.detail = 1
        /\ ~SomeTrioNotLoaded(objs[1])

\* C4: once a lazily loaded attribute of the workout holds a value other
\* than NotLoaded, no step changes that value.
C4_ResolvedValueNeverChanges ==
    [][ \A a \in LazyAttrs :
          ~IsNotLoaded(objs[1].v[a]) => objs'[1].v[a] = objs[1].v[a] ]_vars

\* C5: when a factory call raises during a read, the read raises and the
\* workout is as it was before the read: no attribute has changed.
C5_FailedReadCommitsNothing ==
    ( /\ last.kind = "read"
      /\ last.status = "raised"
      /\ last.exc # "RecursionError" )
        => objs[1] = pre.self

\* C6: loading the three detail attributes ends after a single
\* workout-detail call: no call is made from the __getattribute__ of the
\* fetched workout, the interpreter's recursion limit is never hit, and a
\* read that loaded them and returned made one call.
C6_NoFetchOnFetchedObject ==
    /\ calls.nested = 0
    /\ Len(frames) <= 1
    /\ last.exc # "RecursionError"
    /\ \A a \in Trio :
         (ReturnedRead(a) /\ IsNotLoaded(pre.self.v[a]))
            => calls.detail - pre.detail = 1
\* the caller's last operation was a serialize call that returned
ReturnedSerialize == last.kind = "serialize" /\ last.status = "returned"

\* the attribute values of the object the last serialize call was made on,
\* as the call saw them: a loading serialize of the workout sees what
\* __getattribute__ returned for each key, any other call the __dict__
SerializedAttrs ==
    IF last.target.t = "PelotonWorkout" /\ last.load_all /\ last.depth >= 1
    THEN last.read
    ELSE last.target.v

\* C7: serialize(depth, load_all), for every depth and both values of
\* load_all, makes no factory call and leaves every attribute unchanged.
C7_SerializeNeverFetches ==
    last.kind = "serialize"
        => /\ calls.detail = pre.detail
           /\ calls.metrics = pre.metrics
           /\ objs[1] = pre.self

\* C7 as amended: serialize makes no factory call and changes no attribute
\* when depth = 0, when load_all is false, and on every entity that is not
\* a PelotonWorkout; serialize(depth >= 1, load_all = True) on a
\* PelotonWorkout reads every attribute through __getattribute__, so that
\* when it returns no lazily loaded attribute is NotLoaded, one metrics
\* call was made if metrics was NotLoaded and at least one workout-detail
\* call if one of the three detail attributes was.
C7_SerializeFetchesOnlyUnderLoadAll ==
    /\ ( /\ last.kind = "serialize"
         /\ \/ last.depth = 0
            \/ ~last.load_all
            \/ last.target.t # "PelotonWorkout" )
          => /\ last.status = "returned"
             /\ calls.detail = pre.detail
             /\ calls.metrics = pre.metrics
             /\ objs[1] = pre.self
    /\ ( /\ ReturnedSerialize
         /\ last.depth >= 1
         /\ last.load_all
         /\ last.target.t = "PelotonWorkout" )
          => /\ \A a \in LazyAttrs : ~IsNotLoaded(objs[1].v[a])
             /\ IsNotLoaded(pre.self.v["metrics"]) => calls.metrics - pre.metrics = 1
             /\ SomeTrioNotLoaded(pre.self) => calls.detail - pre.detail >= 1

\* C7 witness: serialize with load_all returned on a workout whose metrics
\* and detail attributes were NotLoaded before the call
C7_SerializeLoadedEverything ==
    /\ ReturnedSerialize
    /\ last.depth >= 1
    /\ last.load_all
    /\ last.target.t = "PelotonWorkout"
    /\ IsNotLoaded(pre.self.v["metrics"])
    /\ TrioNotLoaded(pre.self)
    /\ \A a \in LazyAttrs : ~IsNotLoaded(objs[1].v[a])

\* C8: with depth >= 1 and load_all false the output has no key for an
\* attribute holding NotLoaded and has a key for every other attribute
\* that is not private (a nested entity only when depth > 1).
C8_NotLoadAllKeepsLoadedKeys ==
    (ReturnedSerialize /\ last.depth >= 1 /\ ~last.load_all)
        => DOMAIN last.value.v =
             {k \in DOMAIN last.target.v :
                 /\ k \notin PrivateAttrs
                 /\ ~IsNotLoaded(last.target.v[k])
                 /\ IsPelotonObject(last.target.v[k]) => last.depth > 1}

\* C9: for an attribute k holding a nested entity, serialize with depth 1
\* has no key k, and serialize with depth d >= 2 has key k with the nested
\* entity's own serialize(d - 1) as its value.
C9_NestedEntityDepthRule ==
    (ReturnedSerialize /\ last.depth >= 1)
        => \A k \in DOMAIN SerializedAttrs :
             IsPelotonObject(SerializedAttrs[k])
                => IF last.depth = 1
                   THEN k \notin DOMAIN last.value.v
                   ELSE /\ k \in DOMAIN last.value.v
                        /\ last.value.v[k] =
                             SerializeObject(SerializedAttrs[k], last.depth - 1, TRUE)

\* C10: for every attribute holding a list, serialize with depth >= 1 has
\* the attribute's key; when the list is empty or every element of it was
\* dropped, the value is the empty list.  Stated for load_all = True, the
\* call that emits keys at all (load_all = False is the subject of C8).
C10_ListKeyAlwaysEmitted ==
    (ReturnedSerialize /\ last.depth >= 1 /\ last.load_all)
        => \A k \in DOMAIN SerializedAttrs :
             SerializedAttrs[k].t = "list"
                => /\ k \in DOMAIN last.value.v
                   /\ SerializeList(SerializedAttrs[k].v, last.depth, 1) = <<>>
                        => last.value.v[k] = ListV(<<>>)
\* an element of a list attribute that serialize keeps at this depth
KeptElement(val, depth) ==
    \/ IsPelotonObject(val) /\ depth > 1
    \/ val.t \in {"datetime", "Decimal", "str", "int", "dict"}

\* C10 as amended: serialize(depth >= 1, load_all = True) has the key of a
\* list attribute exactly when the list is empty or one of its elements is
\* kept; an empty list is rendered as the empty list, and a list that is
\* not empty and whose elements were all dropped has no key.
C10_ListKeyOmittedWhenAllDropped ==
    (ReturnedSerialize /\ last.depth >= 1 /\ last.load_all)
        => \A k \in DOMAIN SerializedAttrs :
             SerializedAttrs[k].t = "list"
                => LET v == SerializedAttrs[k].v
                   IN /\ k \in DOMAIN last.value.v
                           <=> \/ v = <<>>
                               \/ \E i \in 1..Len(v) : KeptElement(v[i], last.depth)
                      /\ v = <<>> => last.value.v[k] = ListV(<<>>)

\* C10 witness: a loading serialize returned for an object with a list
\* attribute that is not empty and of which no element is kept
C10_AllElementsDropped ==
    /\ ReturnedSerialize
    /\ last.depth >= 1
    /\ last.load_all
    /\ \E k \in DOMAIN SerializedAttrs :
         /\ SerializedAttrs[k].t = "list"
         /\ SerializedAttrs[k].v # <<>>
         /\ \A i \in 1..Len(SerializedAttrs[k].v) :
                ~KeptElement(SerializedAttrs[k].v[i], last.depth)
         /\ k \notin DOMAIN last.value.v

\* the rendering C11 describes for a value that is not an entity: a
\* date/time as its ISO-8601 string, a decimal as its one-fractional-digit
\* string, a list element by element in the same order, anything else as is
FieldForFieldScalar(val) ==
    IF val.t = "datetime" THEN StrV(IsoFormat(val.v))
    ELSE IF val.t = "Decimal" THEN StrV(FormatOneDecimal(val.v))
    ELSE val

FieldForField(val) ==
    IF val.t = "list"
    THEN ListV([i \in 1..Len(val.v) |-> FieldForFieldScalar(val.v[i])])
    ELSE FieldForFieldScalar(val)

\* no attribute of the object is an entity or a list holding one
NoNestedEntities(attrs) ==
    \A k \in DOMAIN attrs :
        /\ ~IsPelotonObject(attrs[k])
        /\ attrs[k].t = "list"
              => \A i \in 1..Len(attrs[k].v) : ~IsPelotonObject(attrs[k].v[i])

\* C11: for an entity with no nested entities and a depth d >= 1,
\* serialize(d, load_all = True) has exactly one key per attribute that is
\* not private, and each value is the attribute's value field for field
\* (dates and decimals rendered as strings); a list of numbers, integer or
\* not, comes out with the same elements in the same order.
C11_FlatEntityFieldForField ==
    (ReturnedSerialize /\ last.depth >= 1 /\ last.load_all
        /\ NoNestedEntities(SerializedAttrs))
        => /\ DOMAIN last.value.v = DOMAIN SerializedAttrs \ PrivateAttrs
           /\ \A k \in DOMAIN last.value.v :
                 last.value.v[k] = FieldForField(SerializedAttrs[k])

\* C11 case: a PelotonMetric whose values hold a float was serialized with
\* load_all at a depth >= 1
C11_MetricWithFloatSerialized ==
    /\ ReturnedSerialize
    /\ last.depth >= 1
    /\ last.load_all
    /\ last.target.t = "PelotonMetric"
    /\ \E i \in 1..Len(last.target.v["values"].v) :
          last.target.v["values"].v[i].t = "float"

\* C12: serialize with depth 0 returns None, for every class of entity and
\* both values of load_all, having read no attribute, made no factory call
\* and sent no request, and leaving the workout as it was.
C12_DepthZeroReturnsNone ==
    (last.kind = "serialize" /\ last.depth = 0)
        => /\ last.status = "returned"
           /\ last.value = NoneV
           /\ last.read = EmptyMap
           /\ request = NoRequest
           /\ objs[1] = pre.self
           /\ calls.detail = pre.detail
           /\ calls.metrics = pre.metrics

\* C12 witness: serialize(0, load_all = True) returned on a workout that
\* still has NotLoaded attributes
C12_DepthZeroOnNotLoadedWorkout ==
    /\ ReturnedSerialize
    /\ last.depth = 0
    /\ last.load_all
    /\ last.target.t = "PelotonWorkout"
    /\ IsNotLoaded(last.target.v["metrics"])
    /\ TrioNotLoaded(last.target)

\* values a lazily loaded attribute can hold that are falsy or stand for
\* missing data, none of them a NotLoaded
ResolvedFalsyValues == {ListV(<<>>), IntV(0), NoneV, DataMissing}

\* C13: a lazily loaded attribute whose stored value is anything but a
\* NotLoaded is resolved, an empty list, 0, None and a DataMissing
\* included: __getattribute__ does not go on to load it, and a read of it
\* returns the stored value with no factory call, no request and no change
\* to the workout.
C13_ResolvedValueReadAsStored ==
    /\ \A a \in LazyAttrs, val \in ResolvedFalsyValues :
          ~NeedsLoad([objs[1] EXCEPT !.v[a] = val], a)
    /\ (last.kind = "read" /\ last.attr \in LazyAttrs
           /\ ~IsNotLoaded(last.target.v[last.attr]))
          => /\ last.status = "returned"
             /\ last.value = last.target.v[last.attr]
             /\ objs[1] = last.target
             /\ calls.detail = pre.detail
             /\ calls.metrics = pre.metrics
             /\ request = NoRequest

\* C13 witness: a read of a lazily loaded attribute returned the falsy
\* value stored in it (None, which only a detail body brings)
C13_FalsyValueRead ==
    /\ last.kind = "read"
    /\ last.status = "returned"
    /\ last.attr \in LazyAttrs
    /\ last.target.v[last.attr] = NoneV
    /\ last.value = NoneV

\* C14: a read of a workout attribute that is not one of metrics,
\* achievements, leaderboard_rank, leaderboard_users (id, status, ride even
\* while it holds a NotLoaded) returns the stored value at once, with no
\* factory call, no request and no change to the workout.
C14_PlainAttributeRead ==
    (last.kind = "read" /\ last.attr \notin LazyAttrs)
        => /\ last.status = "returned"
           /\ last.value = last.target.v[last.attr]
           /\ objs[1] = last.target
           /\ calls.detail = pre.detail
           /\ calls.metrics = pre.metrics
           /\ request = NoRequest

\* C14 witness: a read of ride returned the NotLoaded it holds
C14_NotLoadedRideRead ==
    /\ ReturnedRead("ride")
    /\ IsNotLoaded(last.target.v["ride"])
    /\ IsNotLoaded(last.value)
    /\ IsNotLoaded(objs[1].v["ride"])

\* the outcome C15 gives for a GET answered with `status`: the response is
\* returned ("none" raised) for 200-299, and the redirect, client or server
\* error is raised for 300-399, 400-499, 500-599
C15_Outcome(status) ==
    IF status \in 300..399 THEN "PelotonRedirectError"
    ELSE IF status \in 400..499 THEN "PelotonClientError"
    ELSE IF status \in 500..599 THEN "PelotonServerError"
    ELSE "none"

\* C15: a GET made by _api_request ends as its response's status says:
\* returned for 2xx, PelotonRedirectError for 3xx, PelotonClientError for
\* 4xx, PelotonServerError for 5xx, and nothing else is raised.
C15_GetClassifiedByStatus ==
    request.status # 0 => request.exc = C15_Outcome(request.status)

\* C15 case: a GET was answered 404 and _api_request raised something
\* other than PelotonClientError
C15_ClientErrorStatusMisreported ==
    /\ request.status = 404
    /\ request.exc # "PelotonClientError"

\* the attribute C16 names for a slug of `summaries`, "" for any other slug
C16_SummaryAttr(slug) ==
    IF slug = "total_output" THEN "output_summary"
    ELSE IF slug = "distance" THEN "distance_summary"
    ELSE IF slug = "calories" THEN "calories_summary"
    ELSE ""

\* the attribute C16 names for a slug of `metrics`, "" for any other slug
C16_MetricAttr(slug) ==
    IF slug \in {"output", "cadence", "resistance", "speed", "heart_rate"}
    THEN slug ELSE ""

\* the performance_graph body handed to PelotonWorkoutMetrics by the latest
\* request, when it has a segment_list, summaries and metrics
C16_MetricsBuilt ==
    /\ request.cls = "PelotonWorkoutMetricsFactory"
    /\ request.status # 0
    /\ request.exc = "none"
    /\ ~WorkoutMetricsInitRaises(request.body)

\* C16: PelotonWorkoutMetrics built from a body whose summaries or metrics
\* hold entries with unrecognized slugs does not raise; the object has an
\* attribute for every recognized slug of the body (total_output under
\* output_summary, distance and calories under <slug>_summary, output,
\* cadence, resistance, speed and heart_rate under their own names),
\* holding the entity built from that entry, and no attribute besides
\* these, workout_duration and fitness_discipline.
C16_UnknownSlugsSkipped ==
    C16_MetricsBuilt
        => LET m == objs[1].v["metrics"]
               summaries == request.body["summaries"].v
               metrics == request.body["metrics"].v
               known == {i \in 1..Len(summaries) :
                            C16_SummaryAttr(summaries[i].v["slug"].v) # ""}
               knownMetrics == {i \in 1..Len(metrics) :
                                   C16_MetricAttr(metrics[i].v["slug"].v) # ""}
           IN /\ m.t = "PelotonWorkoutMetrics"
              /\ last.exc # "TypeError"
              /\ \A i \in known :
                    LET a == C16_SummaryAttr(summaries[i].v["slug"].v)
                    IN a \in DOMAIN m.v
                       /\ m.v[a] = PelotonMetricSummaryInit(summaries[i].v)
              /\ \A i \in knownMetrics :
                    LET a == C16_MetricAttr(metrics[i].v["slug"].v)
                    IN a \in DOMAIN m.v /\ m.v[a] = PelotonMetricInit(metrics[i].v)
              /\ DOMAIN m.v =
                    {"workout_duration", "fitness_discipline"}
                        \cup {C16_SummaryAttr(summaries[i].v["slug"].v) : i \in known}
                        \cup {C16_MetricAttr(metrics[i].v["slug"].v) : i \in knownMetrics}

\* C16 witness: a PelotonWorkoutMetrics was built from a body with an
\* unrecognized slug in its summaries and one in its metrics, next to
\* recognized ones
C16_BuiltFromUnknownSlugs ==
    /\ C16_MetricsBuilt
    /\ objs[1].v["metrics"].t = "PelotonWorkoutMetrics"
    /\ \E i \in 1..Len(request.body["summaries"].v) :
          C16_SummaryAttr(request.body["summaries"].v[i].v["slug"].v) = ""
    /\ \E i \in 1..Len(request.body["summaries"].v) :
          C16_SummaryAttr(request.body["summaries"].v[i].v["slug"].v) # ""
    /\ \E i \in 1..Len(request.body["metrics"].v) :
          C16_MetricAttr(request.body["metrics"].v[i].v["slug"].v) = ""
    /\ \E i \in 1..Len(request.body["metrics"].v) :
          C16_MetricAttr(request.body["metrics"].v[i].v["slug"].v) # ""

\* C17: the session and the user id are shared by the factories: as long
\* as no login has failed, whatever the order of listings, detail fetches
\* and metrics fetches, the login POST has been sent at most once, and
\* exactly once as soon as a GET has been sent.
C17_SingleLoginShared ==
    net.failed = 0
        => /\ net.posts <= 1
           /\ net.gets > 0 => net.posts = 1

\* C17 case: two logins were made, both answered with success
C17_SecondLoginAfterSuccess ==
    /\ net.failed = 0
    /\ net.posts = 2

\* the number of pages C18 has a listing request when the first page
\* reports page_count = n
C18_Pages(n) == IF n > 1 THEN n ELSE 1

\* the workouts of pages 0 .. pages - 1 in page order, each page in the
\* order of its data
C18_Concatenated(pages, limit) ==
    [j \in 1..(pages * limit) |->
        PelotonWorkoutInit(PageData((j - 1) \div limit, limit)[((j - 1) % limit) + 1])]

\* C18: a listing whose first page reports page_count = n requests pages
\* 0, 1, .., max(n, 1) - 1 in that order, each once and all with the
\* results_per_page it was called with, and returns the workouts of these
\* pages concatenated in page order; when a request (or the login) raises,
\* the listing ends with that exception and returns nothing.
C18_ListPagesInOrder ==
    last.kind = "list"
        => /\ \A i \in 1..Len(last.sent) :
                 last.sent[i] = [page |-> i - 1, limit |-> last.results_per_page]
           /\ Len(last.sent) <= C18_Pages(last.page_count)
           /\ last.status = "returned"
                 => /\ Len(last.sent) = C18_Pages(last.page_count)
                    /\ last.value = ListV(C18_Concatenated(C18_Pages(last.page_count),
                                                           last.results_per_page))
           /\ last.status = "raised"
                 => /\ last.exc # "none"
                    /\ last.value = NoneV
                    /\ op = IdleOp

\* C18 witness: a listing of two pages returned
C18_TwoPagesListed ==
    /\ last.kind = "list"
    /\ last.status = "returned"
    /\ last.page_count = 2
    /\ Len(last.sent) = 2
    /\ Len(last.value.v) = 2 * last.results_per_page

\* C19: no GET is sent unless a login has succeeded before it on the class
\* whose session sends it; after a login that failed, the next request
\* logs in again before any GET.
C19_NoGetWithoutLogin ==
    request.status # 0 => request.logged_in

\* C19 case: after a failed login, a GET went out on a session no login
\* ever succeeded on
C19_GetAfterFailedLogin ==
    /\ net.failed > 0
    /\ request.status # 0
    /\ ~request.logged_in

====
